---- MODULE Spec2Model ----
(***************************************************************************)
(* Model of src/finance_calculators.py: a text-menu financial calculator.  *)
(*                                                                         *)
(* The program is a single thread that blocks on input().  One action of   *)
(* the model is one line read at one input() call together with everything *)
(* the program does until it blocks on the next input() call, returns from *)
(* main, or dies with an uncaught exception.                               *)
(*                                                                         *)
(* input() is modelled as always delivering a line (an interactive         *)
(* terminal): end of input and keyboard interrupts are outside the model.  *)
(*                                                                         *)
(* Text is a sequence of one-character strings.  A Python float is a       *)
(* record; see the section "Python floats".                                *)
(***************************************************************************)
EXTENDS Integers, Sequences, FiniteSets, TLC

(***************************************************************************)
(* Text: str.strip, str.lower, the "in" test                               *)
(***************************************************************************)

Whitespace == {" ", "\t"}

LowerChar(c) ==
  CASE c = "A" -> "a" [] c = "B" -> "b" [] c = "C" -> "c" [] c = "D" -> "d"
    [] c = "E" -> "e" [] c = "F" -> "f" [] c = "I" -> "i" [] c = "M" -> "m"
    [] c = "N" -> "n" [] c = "O" -> "o" [] c = "P" -> "p" [] c = "S" -> "s"
    [] c = "T" -> "t" [] c = "U" -> "u" [] c = "V" -> "v" [] c = "X" -> "x"
    [] c = "Y" -> "y" [] OTHER -> c

\* str.lower()
Lower(s) == [i \in 1..Len(s) |-> LowerChar(s[i])]

RECURSIVE LStrip(_)
LStrip(s) ==
  IF s # <<>> /\ Head(s) \in Whitespace THEN LStrip(Tail(s)) ELSE s

RECURSIVE RStrip(_)
RStrip(s) ==
  IF s # <<>> /\ s[Len(s)] \in Whitespace THEN RStrip(SubSeq(s, 1, Len(s) - 1)) ELSE s

\* str.strip()
Strip(s) == RStrip(LStrip(s))

\* c in s
Contains(s, c) == \E i \in 1..Len(s) : s[i] = c

(***************************************************************************)
(* Python floats                                                           *)
(*                                                                         *)
(* A float is a record [k, n, d, x, rn, rd]:                               *)
(*   k = "nan"            not a number                                     *)
(*   k = "inf"            infinity, of sign n                              *)
(*   k = "fin"            the real (n/d) * sqrt(rn/rd) * 10^x, where n/d   *)
(*                        is in lowest terms with 1 <= |n/d| < 10 (or is   *)
(*                        0/1 with x = 0), and rn/rd = 1/1 except for the  *)
(*                        result of math.pow with a half-integer exponent, *)
(*                        where 1 <= rn/rd < 100                           *)
(*   any other k          the exception of that name, raised instead of    *)
(*                        returning a value                                *)
(* Finite results are kept exact, with the three effects of the double     *)
(* format that change what the program does: a sum whose smaller term is   *)
(* below 1e-17 of the larger is the larger term (the smaller is under half *)
(* a unit in the last place, which is at least 2^-54 of the value),        *)
(* a product or quotient beyond the largest double is inf (math.pow raises *)
(* OverflowError there), and one below the smallest subnormal is 0.        *)
(***************************************************************************)

Abs(a) == IF a < 0 THEN -a ELSE a

Sign(a) == IF a < 0 THEN -1 ELSE IF a = 0 THEN 0 ELSE 1

RECURSIVE Gcd(_, _)
Gcd(a, b) == IF b = 0 THEN a ELSE Gcd(b, a % b)

RECURSIVE Pow10(_)
Pow10(j) == IF j = 0 THEN 1 ELSE 10 * Pow10(j - 1)

Mk(k, n, d, x, rn, rd) == [k |-> k, n |-> n, d |-> d, x |-> x, rn |-> rn, rd |-> rd]

NaN == Mk("nan", 0, 1, 0, 1, 1)

Inf(s) == Mk("inf", s, 1, 0, 1, 1)

Zero == Mk("fin", 0, 1, 0, 1, 1)

\* raise e
Raise(e) == Mk(e, 0, 1, 0, 1, 1)

IsNaN(v) == v.k = "nan"

IsInf(v) == v.k = "inf"

IsFin(v) == v.k = "fin"

\* no float: the initial value of a local that is not assigned yet
Unset == Mk("unset", 0, 1, 0, 1, 1)

IsErr(v) == v.k \in {"ValueError", "OverflowError", "ZeroDivisionError"}

IsZero(v) == v.k = "fin" /\ v.n = 0

IsSurd(v) == v.k = "fin" /\ (v.rn # 1 \/ v.rd # 1)

\* the sign of a float that is not nan: -1, 0 or 1
SignOf(v) == Sign(v.n)

\* (n/d) * 10^x in the record's form: the fraction reduced and 1 <= |n/d| < 10
RECURSIVE Scale(_, _, _)
Scale(n, d, x) ==
  IF n = 0 THEN Zero
  ELSE IF Abs(n) >= 10 * d THEN
         (IF n % 10 = 0 THEN Scale(n \div 10, d, x + 1) ELSE Scale(n, d * 10, x + 1))
  ELSE IF Abs(n) < d THEN
         (IF d % 10 = 0 THEN Scale(n, d \div 10, x - 1) ELSE Scale(n * 10, d, x - 1))
  ELSE LET g == Gcd(Abs(n), d) IN Mk("fin", n \div g, d \div g, x, 1, 1)

\* the double nearest to a finite real: inf beyond the largest double
\* (1.7976931348623157e308), 0 below the smallest subnormal (4.9e-324)
Round(v) ==
  IF v.k # "fin" \/ v.n = 0 THEN v
  ELSE IF v.x > 308 \/ (v.x = 308 /\ ~IsSurd(v) /\ Abs(v.n) * 10000 > 17976 * v.d)
       THEN Inf(Sign(v.n))
  ELSE IF v.x < -324 THEN Zero
  ELSE v

\* -a
FNeg(a) == IF a.k \in {"fin", "inf"} THEN [a EXCEPT !.n = -a.n] ELSE a

\* the product of two reals of which at most one carries a square root
MulExact(a, b) ==
  LET g1 == Gcd(Abs(a.n), b.d)
      g2 == Gcd(Abs(b.n), a.d)
      s  == Scale((a.n \div g1) * (b.n \div g2), (a.d \div g2) * (b.d \div g1), a.x + b.x)
  IN  IF s.n = 0 THEN Zero
      ELSE [s EXCEPT !.rn = a.rn * b.rn, !.rd = a.rd * b.rd]

\* 1 / b for a finite b # 0 without a square root
Recip(b) == Scale(Sign(b.n) * b.d, Abs(b.n), -b.x)

\* a * b
FMul(a, b) ==
  IF IsNaN(a) \/ IsNaN(b) THEN NaN
  ELSE IF IsInf(a) \/ IsInf(b) THEN
         (IF IsZero(a) \/ IsZero(b) THEN NaN ELSE Inf(SignOf(a) * SignOf(b)))
  ELSE Round(MulExact(a, b))

\* a / b: float division by zero raises ZeroDivisionError
FDiv(a, b) ==
  IF IsZero(b) THEN Raise("ZeroDivisionError")
  ELSE IF IsNaN(a) \/ IsNaN(b) THEN NaN
  ELSE IF IsInf(a) THEN (IF IsInf(b) THEN NaN ELSE Inf(SignOf(a) * SignOf(b)))
  ELSE IF IsInf(b) THEN Zero
  ELSE Round(MulExact(a, Recip(b)))

\* a + b
FAdd(a, b) ==
  IF IsNaN(a) \/ IsNaN(b) THEN NaN
  ELSE IF IsInf(a) THEN (IF IsInf(b) /\ a.n # b.n THEN NaN ELSE a)
  ELSE IF IsInf(b) THEN b
  ELSE IF IsZero(a) THEN b
  ELSE IF IsZero(b) THEN a
  ELSE LET hi == IF a.x >= b.x THEN a ELSE b
           lo == IF a.x >= b.x THEN b ELSE a
           df == hi.x - lo.x
       IN  IF df >= 18 THEN hi
           ELSE LET g == Gcd(hi.d, lo.d)
                IN  Round(Scale(hi.n * (lo.d \div g) * Pow10(df) + lo.n * (hi.d \div g),
                                (hi.d \div g) * lo.d, lo.x))

\* a - b
FSub(a, b) == FAdd(a, FNeg(b))

\* a <= b for floats without a square root: false when either is nan
FLe(a, b) ==
  IF IsNaN(a) \/ IsNaN(b) THEN FALSE
  ELSE IF IsInf(a) /\ IsInf(b) THEN a.n <= b.n
  ELSE SignOf(FSub(b, a)) >= 0

\* a float from a Python int
FromInt(m) == Scale(m, 1, 0)

One == FromInt(1)

IsOne(v) == v = One

\* b^j for a Python int j >= 0, exactly
RECURSIVE PowNat(_, _)
PowNat(b, j) == IF j = 0 THEN One ELSE MulExact(b, PowNat(b, j - 1))

\* b^(h/2) for an integer h, exactly: b^(h \div 2), times sqrt(b) when h is odd
HalfPow(b, h) ==
  LET j    == h \div 2
      p    == IF j >= 0 THEN PowNat(b, j) ELSE Recip(PowNat(b, -j))
      even == b.x % 2 = 0
      g    == Gcd(Abs(b.n), b.d)
      g10  == Gcd(10 * Abs(b.n), b.d)
  IN  IF h % 2 = 0 THEN p
      ELSE [p EXCEPT !.x  = p.x + (b.x \div 2),
                     !.rn = IF even THEN b.n ELSE (10 * b.n) \div g10,
                     !.rd = IF even THEN b.d ELSE b.d \div g10]

\* math.pow(b, y) for b >= 0 or b nan.  A finite y is a multiple of 1/2, or
\* is at least 1e19 in size, where b^y is beyond every double (or below every
\* one) because b # 1 is at least one unit in the last place away from 1, or
\* is below 1e-21 in size, where b^y is within 1e-18 of 1 and so is 1.
FPow(b, y) ==
  IF IsOne(b) \/ IsZero(y) THEN One
  ELSE IF IsNaN(b) \/ IsNaN(y) THEN NaN
  ELSE IF IsZero(b) THEN
         (IF y.n > 0 THEN Zero ELSE IF IsInf(y) THEN Inf(1) ELSE Raise("ValueError"))
  ELSE IF IsInf(y) THEN
         (IF (IsInf(b) \/ b.x >= 0) = (y.n > 0) THEN Inf(1) ELSE Zero)
  ELSE IF IsInf(b) THEN (IF y.n > 0 THEN Inf(1) ELSE Zero)
  ELSE IF y.x >= 19 THEN
         (IF (b.x >= 0) = (y.n > 0) THEN Raise("OverflowError") ELSE Zero)
  ELSE IF y.x <= -22 THEN One
  ELSE LET num == IF y.x >= 0 THEN 2 * y.n * Pow10(y.x) ELSE 2 * y.n
           den == IF y.x >= 0 THEN y.d ELSE y.d * Pow10(-y.x)
           r   == CASE num % den = 0 -> Round(HalfPow(b, num \div den))
       IN  IF IsInf(r) THEN Raise("OverflowError") ELSE r

\* int(v): truncation toward zero; a double of size 1e16 or more is whole
ToInt(v) ==
  IF IsNaN(v) THEN Raise("ValueError")
  ELSE IF IsInf(v) THEN Raise("OverflowError")
  ELSE IF v.x >= 16 THEN v
  ELSE IF v.x < 0 THEN Zero
  ELSE FromInt(Sign(v.n) * ((Abs(v.n) * Pow10(v.x)) \div v.d))

(***************************************************************************)
(* float(s): optional surrounding whitespace, an optional sign, then       *)
(* "inf", "infinity" or "nan" in any case, or digits with an optional      *)
(* fraction and an optional exponent.  Anything else raises ValueError.    *)
(***************************************************************************)

Digits == {"0", "1", "2", "3", "4", "5", "6", "7", "8", "9"}

DigitVal(c) ==
  CASE c = "0" -> 0 [] c = "1" -> 1 [] c = "2" -> 2 [] c = "3" -> 3 [] c = "4" -> 4
    [] c = "5" -> 5 [] c = "6" -> 6 [] c = "7" -> 7 [] c = "8" -> 8 [] c = "9" -> 9

AllDigits(s) == \A i \in 1..Len(s) : s[i] \in Digits

RECURSIVE DigitsVal(_)
DigitsVal(s) ==
  IF s = <<>> THEN 0 ELSE 10 * DigitsVal(SubSeq(s, 1, Len(s) - 1)) + DigitVal(s[Len(s)])

\* the first index of c in s, or 0
IndexOf(s, c) ==
  IF Contains(s, c) THEN CHOOSE i \in 1..Len(s) : s[i] = c /\ \A j \in 1..(i - 1) : s[j] # c
  ELSE 0

ParseDecimal(w, sg) ==
  LET ePos == IndexOf(w, "e")
      mant == IF ePos = 0 THEN w ELSE SubSeq(w, 1, ePos - 1)
      ex   == IF ePos = 0 THEN <<>> ELSE SubSeq(w, ePos + 1, Len(w))
      exNeg == ex # <<>> /\ Head(ex) = "-"
      exDig == IF ex # <<>> /\ Head(ex) \in {"+", "-"} THEN Tail(ex) ELSE ex
      dot  == IndexOf(mant, ".")
      ip   == IF dot = 0 THEN mant ELSE SubSeq(mant, 1, dot - 1)
      fp   == IF dot = 0 THEN <<>> ELSE SubSeq(mant, dot + 1, Len(mant))
      ok   == /\ AllDigits(ip) /\ AllDigits(fp) /\ Len(ip) + Len(fp) >= 1
              /\ (ePos = 0 \/ (exDig # <<>> /\ AllDigits(exDig)))
      xv   == IF exNeg THEN -DigitsVal(exDig) ELSE DigitsVal(exDig)
  IN  IF ok THEN Round(Scale(sg * DigitsVal(ip \o fp), 1, xv - Len(fp)))
      ELSE Raise("ValueError")

\* float(s)
ParseFloat(s) ==
  LET t  == Strip(s)
      sg == IF t # <<>> /\ Head(t) = "-" THEN -1 ELSE 1
      u  == IF t # <<>> /\ Head(t) \in {"+", "-"} THEN Tail(t) ELSE t
      w  == Lower(u)
  IN  IF w \in {<<"i", "n", "f">>, <<"i", "n", "f", "i", "n", "i", "t", "y">>} THEN Inf(sg)
      ELSE IF w = <<"n", "a", "n">> THEN NaN
      ELSE ParseDecimal(w, sg)

(***************************************************************************)
(* The calculators                                                         *)
(***************************************************************************)

\* calculate_simple_interest with the rate taken as a fraction, not a percentage
calculate_simple_interest_rate_as_fraction(principal, rate, years) ==
  FMul(principal, FAdd(One, FMul(rate, years)))

calculate_simple_interest(principal, rate, years) ==
  FMul(principal, FAdd(One, FMul(FDiv(rate, FromInt(100)), years)))

calculate_compound_interest(principal, rate, years) ==
  LET pw == FPow(FAdd(One, FDiv(rate, FromInt(100))), years)
  IN  IF IsErr(pw) THEN pw ELSE FMul(principal, pw)

calculate_bond_repayment(house_value, annual_rate, months) ==
  LET monthly_rate == FDiv(FDiv(annual_rate, FromInt(100)), FromInt(12))
      pw           == FPow(FAdd(One, monthly_rate), FNeg(months))
      denom        == FSub(One, pw)
      repayment    == FDiv(FMul(monthly_rate, house_value), denom)
  IN  IF IsErr(pw) THEN pw ELSE repayment

(***************************************************************************)
(* The lines a user may type at any prompt                                 *)
(***************************************************************************)

Lines ==
  { <<"2">>,
    <<" ", "2", " ">>,
    <<"2", "%">>,
    <<"0", ".", "5">>,
    <<"0">>,
    <<"-", "2">>,
    <<"n", "a", "n">>,
    <<"i", "n", "f">>,
    <<"1", "e", "-", "3", "0">>,
    <<"1", "e", "3", "0", "0">>,
    <<"a", "b", "c">>,
    <<>>,
    <<"%">>,
    <<"i", "n", "v", "e", "s", "t", "m", "e", "n", "t">>,
    <<" ", " ", "I", "N", "V", "E", "S", "T", "M", "E", "N", "T", " ">>,
    <<"b", "o", "n", "d">>,
    <<"B", "o", "n", "d", " ">>,
    <<"e", "x", "i", "t">>,
    <<" ", "E", "x", "i", "t">>,
    <<"s", "i", "m", "p", "l", "e">>,
    <<"S", "i", "m", "p", "l", "e", " ">>,
    <<"c", "o", "m", "p", "o", "u", "n", "d">>,
    <<"C", "O", "M", "P", "O", "U", "N", "D">> }

investment == <<"i", "n", "v", "e", "s", "t", "m", "e", "n", "t">>

bond == <<"b", "o", "n", "d">>

exit == <<"e", "x", "i", "t">>

simple == <<"s", "i", "m", "p", "l", "e">>

compound == <<"c", "o", "m", "p", "o", "u", "n", "d">>

(***************************************************************************)
(* The readers: one pass of the "while True" loop on the line read.        *)
(* done: the reader returns value; otherwise it has printed out and        *)
(* prompts again.                                                          *)
(***************************************************************************)

Again(msgs) == [done |-> FALSE, value |-> Unset, out |-> msgs]

Return(v) == [done |-> TRUE, value |-> v, out |-> <<>>]

Say(text) == [text |-> text, args |-> <<>>]

get_positive_float(ln) ==
  LET value == ParseFloat(ln)
  IN  IF IsErr(value) THEN Again(<<Say("Invalid input. Please enter numeric value.")>>)
      ELSE IF FLe(value, Zero) THEN Again(<<Say("Please enter a greater number than zero.")>>)
      ELSE Return(value)

\* get_interest_rate without its test for "%"
get_interest_rate_without_percent_test(ln) ==
  LET rt == ParseFloat(Strip(ln))
  IN  IF IsErr(rt) THEN Again(<<Say("Invalid input. Please enter a numeric value.")>>)
      ELSE IF FLe(rt, Zero) THEN Again(<<Say("Please enter interest rate greater than zero.")>>)
      ELSE Return(rt)

get_interest_rate(ln) ==
  LET rate_input == Strip(ln)
      rt         == ParseFloat(rate_input)
  IN  IF Contains(rate_input, "%")
        THEN Again(<<Say("Do not include the '%' symbol."),
                     Say("Enter numbers only (i.e. 8 for 8%).")>>)
      ELSE IF IsErr(rt) THEN Again(<<Say("Invalid input. Please enter a numeric value.")>>)
      ELSE IF FLe(rt, Zero) THEN Again(<<Say("Please enter interest rate greater than zero.")>>)
      ELSE Return(rt)

(***************************************************************************)
(* The handlers after their last input() and the menu's dispatch.          *)
(* A step ends with exc = "" at the next prompt, or with the name of the   *)
(* exception that nothing catches.  call is the calculator call made.     *)
(***************************************************************************)

NoCall == [fn |-> "none", args |-> <<>>, ret |-> Unset]

Outcome(c, msgs) ==
  [call |-> c, exc |-> IF IsErr(c.ret) THEN c.ret.k ELSE "", out |-> IF IsErr(c.ret) THEN <<>> ELSE msgs]

\* handle_investment from the accepted interest_type on
handle_investment_result(principal_, rate_, years_, interest_type) ==
  LET total == IF interest_type = simple
                 THEN calculate_simple_interest(principal_, rate_, years_)
                 ELSE calculate_compound_interest(principal_, rate_, years_)
      c     == [fn   |-> IF interest_type = simple THEN "calculate_simple_interest"
                                                   ELSE "calculate_compound_interest",
                args |-> <<principal_, rate_, years_>>,
                ret  |-> total]
  IN  Outcome(c, <<[text |-> "After {years:.0f} years, your investment will be worth: {total:,.2f}",
                    args |-> <<years_, total>>]>>)

\* handle_bond from the value months = get_positive_float(...) on
handle_bond_result(house_value_, rate_, months) ==
  LET m         == ToInt(months)
      repayment == IF IsErr(m) THEN m ELSE calculate_bond_repayment(house_value_, rate_, m)
      c         == [fn   |-> "calculate_bond_repayment",
                    args |-> IF IsErr(m) THEN <<>> ELSE <<house_value_, rate_, m>>,
                    ret  |-> repayment]
  IN  IF FLe(months, Zero) \/ FLe(rate_, Zero)
        THEN Outcome(NoCall, <<Say("Invalid input: months and interest rate must be > 0.")>>)
      ELSE IF IsErr(m) THEN [call |-> NoCall, exc |-> m.k, out |-> <<>>]
      ELSE Outcome(c, <<[text |-> "Your monthly repayment will be: {repayment:,.2f}",
                         args |-> <<repayment>>]>>)

\* what main prints before it prompts for the choice
MenuText ==
  << Say("Please type your option:"),
     Say("Investment - Calculate investment returns"),
     Say("Bond       - Calculate home loan repayments"),
     Say("Exit       - Exit calculator") >>

\* main_dispatch comparing the trimmed line as typed, without lower()
main_dispatch_case_sensitive(ln) ==
  LET choice == Strip(ln)
  IN  IF choice = investment
        THEN [pc |-> "inv_principal", out |-> <<Say("Investment Calculator:")>>]
      ELSE IF choice = bond
        THEN [pc |-> "bond_house_value", out |-> <<Say("Bond Repayment Calculator:")>>]
      ELSE IF choice = exit
        THEN [pc |-> "exited", out |-> <<Say("Thank you for using Financial Calculator. Goodbye!")>>]
      ELSE [pc |-> "menu", out |-> MenuText]

\* main_dispatch with an else branch that reports the unknown choice
main_dispatch_reporting_unknown(ln) ==
  LET choice == Lower(Strip(ln))
  IN  IF choice = investment
        THEN [pc |-> "inv_principal", out |-> <<Say("Investment Calculator:")>>]
      ELSE IF choice = bond
        THEN [pc |-> "bond_house_value", out |-> <<Say("Bond Repayment Calculator:")>>]
      ELSE IF choice = exit
        THEN [pc |-> "exited", out |-> <<Say("Thank you for using Financial Calculator. Goodbye!")>>]
      ELSE [pc |-> "menu", out |-> <<Say("Invalid choice.")>> \o MenuText]

\* main's if / elif chain on the line read at the menu prompt
main_dispatch(ln) ==
  LET choice == Lower(Strip(ln))
  IN  IF choice = investment
        THEN [pc |-> "inv_principal", out |-> <<Say("Investment Calculator:")>>]
      ELSE IF choice = bond
        THEN [pc |-> "bond_house_value", out |-> <<Say("Bond Repayment Calculator:")>>]
      ELSE IF choice = exit
        THEN [pc |-> "exited", out |-> <<Say("Thank you for using Financial Calculator. Goodbye!")>>]
      ELSE [pc |-> "menu", out |-> MenuText]

(***************************************************************************)
(* The program                                                             *)
(*   pc           where the program is blocked: the input() call it waits  *)
(*                in, or "exited" (main returned) or "crashed"             *)
(*   at, line     the prompt the last line was read at, and that line      *)
(*   out          what was printed since that line was read                *)
(*   call         the calculator call made since that line was read        *)
(*   exc          the uncaught exception when pc = "crashed"               *)
(*   principal, rate, years, house_value                                   *)
(*                the locals of the running handler that live across an    *)
(*                input() call; Unset outside their handler                *)
(***************************************************************************)
VARIABLES pc, at, line, out, call, exc, principal, rate, years, house_value

locals == <<principal, rate, years, house_value>>

vars == <<pc, at, line, out, call, exc, principal, rate, years, house_value>>

Init ==
  /\ pc = "menu"
  /\ at = "start"
  /\ line = <<>>
  /\ out = <<Say("Welcome to your Financial Calculator!")>> \o MenuText
  /\ call = NoCall
  /\ exc = ""
  /\ principal = Unset
  /\ rate = Unset
  /\ years = Unset
  /\ house_value = Unset

\* the line ln is read at the prompt the program waits in
Read(ln) ==
  /\ line' = ln
  /\ at' = pc

\* a reader pass: it returns into the local at nextpc, or prompts again
Prompted(r, nextpc) ==
  /\ pc' = IF r.done THEN nextpc ELSE pc
  /\ out' = r.out
  /\ call' = NoCall
  /\ exc' = exc

\* Finished for handlers that keep their values in module-level variables:
\* the values outlive the handler's return
Finished_keeping_locals(o) ==
  /\ pc' = IF o.exc = "" THEN "menu" ELSE "crashed"
  /\ out' = IF o.exc = "" THEN o.out \o MenuText ELSE o.out
  /\ call' = o.call
  /\ exc' = o.exc
  /\ UNCHANGED <<principal, rate, years, house_value>>

\* the handler ends: back at the menu prompt, or dead with an exception
Finished(o) ==
  /\ pc' = IF o.exc = "" THEN "menu" ELSE "crashed"
  /\ out' = IF o.exc = "" THEN o.out \o MenuText ELSE o.out
  /\ call' = o.call
  /\ exc' = o.exc
  /\ principal' = IF o.exc = "" THEN Unset ELSE principal
  /\ rate' = IF o.exc = "" THEN Unset ELSE rate
  /\ years' = IF o.exc = "" THEN Unset ELSE years
  /\ house_value' = IF o.exc = "" THEN Unset ELSE house_value

\* main: choice = input("Enter your choice: ").strip().lower() and the dispatch
main_choice ==
  /\ pc = "menu"
  /\ \E ln \in Lines :
       /\ Read(ln)
       /\ pc' = main_dispatch(ln).pc
       /\ out' = main_dispatch(ln).out
       /\ call' = NoCall
       /\ UNCHANGED <<exc, locals>>

\* handle_investment_principal with a reader that lets "exit" end the program
handle_investment_principal_honouring_exit ==
  /\ pc = "inv_principal"
  /\ \E ln \in Lines :
       LET r == get_positive_float(ln)
       IN  /\ Read(ln)
           /\ IF Lower(Strip(ln)) = exit
                THEN /\ pc' = "exited"
                     /\ out' = <<Say("Thank you for using Financial Calculator. Goodbye!")>>
                     /\ call' = NoCall
                     /\ exc' = exc
                ELSE Prompted(r, "inv_rate")
           /\ principal' = IF r.done THEN r.value ELSE principal
           /\ UNCHANGED <<rate, years, house_value>>

\* handle_investment: principal = get_positive_float(...)
handle_investment_principal ==
  /\ pc = "inv_principal"
  /\ \E ln \in Lines :
       LET r == get_positive_float(ln)
       IN  /\ Read(ln)
           /\ Prompted(r, "inv_rate")
           /\ principal' = IF r.done THEN r.value ELSE principal
           /\ UNCHANGED <<rate, years, house_value>>

\* handle_investment: rate = get_interest_rate(...)
handle_investment_rate ==
  /\ pc = "inv_rate"
  /\ \E ln \in Lines :
       LET r == get_interest_rate(ln)
       IN  /\ Read(ln)
           /\ Prompted(r, "inv_years")
           /\ rate' = IF r.done THEN r.value ELSE rate
           /\ UNCHANGED <<principal, years, house_value>>

\* handle_investment: years = get_positive_float(...)
handle_investment_years ==
  /\ pc = "inv_years"
  /\ \E ln \in Lines :
       LET r == get_positive_float(ln)
       IN  /\ Read(ln)
           /\ Prompted(r, "inv_type")
           /\ years' = IF r.done THEN r.value ELSE years
           /\ UNCHANGED <<principal, rate, house_value>>

\* handle_investment_type comparing the trimmed line as typed, without lower()
handle_investment_type_case_sensitive ==
  /\ pc = "inv_type"
  /\ \E ln \in Lines :
       LET interest_type == Strip(ln)
       IN  /\ Read(ln)
           /\ IF interest_type \in {simple, compound}
                THEN Finished(handle_investment_result(principal, rate, years, interest_type))
                ELSE /\ Prompted(Again(<<Say("Invalid choice. Please enter 'simple' or 'compound'.")>>), pc)
                     /\ UNCHANGED locals

\* handle_investment: the interest_type loop, then the calculation and the display
handle_investment_type ==
  /\ pc = "inv_type"
  /\ \E ln \in Lines :
       LET interest_type == Lower(Strip(ln))
       IN  /\ Read(ln)
           /\ IF interest_type \in {simple, compound}
                THEN Finished(handle_investment_result(principal, rate, years, interest_type))
                ELSE /\ Prompted(Again(<<Say("Invalid choice. Please enter 'simple' or 'compound'.")>>), pc)
                     /\ UNCHANGED locals

\* handle_bond: house_value = get_positive_float(...)
handle_bond_house_value ==
  /\ pc = "bond_house_value"
  /\ \E ln \in Lines :
       LET r == get_positive_float(ln)
       IN  /\ Read(ln)
           /\ Prompted(r, "bond_rate")
           /\ house_value' = IF r.done THEN r.value ELSE house_value
           /\ UNCHANGED <<principal, rate, years>>

\* handle_bond: rate = get_interest_rate(...)
handle_bond_rate ==
  /\ pc = "bond_rate"
  /\ \E ln \in Lines :
       LET r == get_interest_rate(ln)
       IN  /\ Read(ln)
           /\ Prompted(r, "bond_months")
           /\ rate' = IF r.done THEN r.value ELSE rate
           /\ UNCHANGED <<principal, years, house_value>>

\* handle_bond: months = get_positive_float(...), then the check, the
\* calculation and the display
handle_bond_months ==
  /\ pc = "bond_months"
  /\ \E ln \in Lines :
       LET r == get_positive_float(ln)
       IN  /\ Read(ln)
           /\ IF r.done
                THEN Finished(handle_bond_result(house_value, rate, r.value))
                ELSE /\ Prompted(r, pc)
                     /\ UNCHANGED locals

Next ==
  \/ main_choice
  \/ handle_investment_principal
  \/ handle_investment_rate
  \/ handle_investment_years
  \/ handle_investment_type
  \/ handle_bond_house_value
  \/ handle_bond_rate
  \/ handle_bond_months

Spec == Init /\ [][Next]_vars

(***************************************************************************)
(* The calculators on their own: one call of one calculator on arguments   *)
(* drawn from a grid of amounts, rates and durations.  The grid holds      *)
(* finite numbers only, of ordinary size and at both ends of the doubles.  *)
(***************************************************************************)

Dec(n, x) == Scale(n, 1, x)

CalcAmounts == { Dec(1000, 0), Dec(2, 0), Dec(5, -1), Dec(1, -30), Dec(1, 300) }

CalcRates == { Dec(8, 0), Dec(2, 0), Dec(5, -1), Dec(1, -30), Dec(1, 300) }

CalcYears == { Zero, Dec(5, -1), Dec(1, 0), Dec(15, -1), Dec(2, 0), Dec(3, 0) }

CalcMonths == { Dec(1, 0), Dec(2, 0) }

InterestArgs ==
  { <<p, r, y>> : p \in CalcAmounts, r \in CalcRates \ {Dec(5, -1)}, y \in CalcYears }
    \cup { <<Dec(1000, 0), Dec(8, 0), Dec(5, 0)>> }

BondArgs == { <<h, r, m>> : h \in CalcAmounts, r \in CalcRates, m \in CalcMonths }

CalcInit ==
  /\ \/ pc = "call_interest" /\ \E a \in InterestArgs : call = [fn |-> "none", args |-> a, ret |-> Unset]
     \/ pc = "call_bond" /\ \E a \in BondArgs : call = [fn |-> "none", args |-> a, ret |-> Unset]
  /\ at = "start"
  /\ line = <<>>
  /\ out = <<>>
  /\ exc = ""
  /\ principal = Unset
  /\ rate = Unset
  /\ years = Unset
  /\ house_value = Unset

Called(fn, ret) ==
  /\ call' = [call EXCEPT !.fn = fn, !.ret = ret]
  /\ pc' = "returned"
  /\ UNCHANGED <<at, line, out, exc, principal, rate, years, house_value>>

call_simple_interest ==
  /\ pc = "call_interest"
  /\ Called("calculate_simple_interest",
            calculate_simple_interest(call.args[1], call.args[2], call.args[3]))

call_compound_interest ==
  /\ pc = "call_interest"
  /\ Called("calculate_compound_interest",
            calculate_compound_interest(call.args[1], call.args[2], call.args[3]))

call_bond_repayment ==
  /\ pc = "call_bond"
  /\ Called("calculate_bond_repayment",
            calculate_bond_repayment(call.args[1], call.args[2], call.args[3]))

CalcNext ==
  \/ call_simple_interest
  \/ call_compound_interest
  \/ call_bond_repayment

CalcSpec == CalcInit /\ [][CalcNext]_vars

(***************************************************************************)
(* Properties                                                              *)
(***************************************************************************)

\* v > 0 as Python evaluates it: false for nan
Positive(v) == v.k \in {"fin", "inf"} /\ v.n > 0

Stopped == {"exited", "crashed"}

\* C1: handle_bond calls calculate_bond_repayment only with a months argument
\* that is at least 1, so that the formula's denominator is never 0.
C1_BondMonthsAtLeastOne ==
  call.fn = "calculate_bond_repayment" =>
    /\ FLe(One, call.args[3])
    /\ call.ret.k # "ZeroDivisionError"

\* C2: a reader never returns a value that is not strictly greater than zero,
\* so every number a handler holds or passes to a calculator is > 0.
C2_ReadersReturnPositive ==
  /\ \A v \in {principal, rate, years, house_value} : v # Unset => Positive(v)
  /\ \A i \in 1..Len(call.args) : Positive(call.args[i])

\* C3: no sequence of input lines drives the program into an uncaught error.
C3_NeverCrashes == pc # "crashed"

\* C4: a line with a "%" never leaves the rate prompt: it is answered with the
\* percent hint and the prompt is repeated, whatever the rest of the line is;
\* the line "2" is accepted there with the value 2.
C4_PercentRejected ==
  /\ [][ (pc \in {"inv_rate", "bond_rate"} /\ Contains(line', "%")) =>
           /\ pc' = pc
           /\ rate' = rate
           /\ out' = << Say("Do not include the '%' symbol."),
                        Say("Enter numbers only (i.e. 8 for 8%).") >> ]_vars
  /\ [][ (pc \in {"inv_rate", "bond_rate"} /\ line' = <<"2">>) =>
           /\ pc' = (IF pc = "inv_rate" THEN "inv_years" ELSE "bond_months")
           /\ rate' = FromInt(2) ]_vars

\* C4 happens: "2%" was typed at the rate prompt and the hint was printed.
C4_Witness ==
  /\ at = "inv_rate"
  /\ line = <<"2", "%">>
  /\ pc = "inv_rate"
  /\ out = << Say("Do not include the '%' symbol."), Say("Enter numbers only (i.e. 8 for 8%).") >>

\* the lines of Lines that are "investment" (resp. "bond") once trimmed and
\* lower-cased
InvestmentLines == { <<"i", "n", "v", "e", "s", "t", "m", "e", "n", "t">>, <<" ", " ", "I", "N", "V", "E", "S", "T", "M", "E", "N", "T", " ">> }

BondLines == { <<"b", "o", "n", "d">>, <<"B", "o", "n", "d", " ">> }

ExitLines == { <<"e", "x", "i", "t">>, <<" ", "E", "x", "i", "t">> }

\* C5: a line at the menu starts the investment handler iff it is
\* "investment" once trimmed and lower-cased, and then exactly as the line
\* "investment" does; likewise for "bond"; no other line starts a handler.
C5_DispatchOnNormalizedChoice ==
  [][ pc = "menu" =>
        /\ (pc' = "inv_principal") = (line' \in InvestmentLines)
        /\ (pc' = "bond_house_value") = (line' \in BondLines)
        /\ pc' \in {"inv_principal", "bond_house_value", "menu", "exited"}
        /\ line' \in InvestmentLines =>
             <<out', call', exc', principal', rate', years', house_value'>>
               = <<<<Say("Investment Calculator:")>>, NoCall, "", Unset, Unset, Unset, Unset>>
        /\ line' \in BondLines =>
             <<out', call', exc', principal', rate', years', house_value'>>
               = <<<<Say("Bond Repayment Calculator:")>>, NoCall, "", Unset, Unset, Unset, Unset>>
    ]_vars

\* C5 happens: "  INVESTMENT " at the menu started the investment handler.
C5_Witness ==
  /\ at = "menu"
  /\ line = <<" ", " ", "I", "N", "V", "E", "S", "T", "M", "E", "N", "T", " ">>
  /\ pc = "inv_principal"

\* C6: a menu line that is none of "investment", "bond", "exit" once trimmed
\* and lower-cased is ignored: no handler runs, nothing but the menu is
\* printed, the loop goes on and prompts for the choice again.
C6_UnknownChoiceIgnored ==
  [][ (pc = "menu" /\ line' \notin InvestmentLines \cup BondLines \cup ExitLines) =>
        /\ pc' = "menu"
        /\ out' = MenuText
        /\ call' = NoCall
        /\ UNCHANGED <<exc, principal, rate, years, house_value>> ]_vars

\* C6 happens: "abc" was typed at the menu and the menu is prompting again.
C6_Witness ==
  /\ at = "menu"
  /\ line = <<"a", "b", "c">>
  /\ pc = "menu"
  /\ out = MenuText

\* C7: the program stops only on a line that is "exit" once trimmed and
\* lower-cased, read at the menu prompt, where it prints the farewell and
\* main returns; in every other state it keeps waiting for input.
C7_StopsOnlyOnExit ==
  pc \in Stopped =>
    /\ pc = "exited"
    /\ at = "menu"
    /\ line \in ExitLines
    /\ out = <<Say("Thank you for using Financial Calculator. Goodbye!")>>

\* the square of a finite float, which has no square root in it
Square(v) ==
  LET q == [v EXCEPT !.rn = 1, !.rd = 1]
  IN  MulExact(MulExact(q, q), Scale(v.rn, v.rd, 0))

\* a >= b for floats that are not negative: false when either is nan
AtLeast(a, b) ==
  IF IsSurd(a) \/ IsSurd(b) THEN FLe(Square(b), Square(a)) ELSE FLe(b, a)

\* C8: for P > 0, R > 0 and Y >= 1, calculate_compound_interest(P, R, Y) is
\* at least calculate_simple_interest(P, R, Y), and equal to it at Y = 1.
C8_CompoundAtLeastSimple ==
  (/\ pc = "returned"
   /\ call.fn = "calculate_compound_interest"
   /\ \A i \in 1..3 : Positive(call.args[i])
   /\ FLe(One, call.args[3])) =>
    LET s == calculate_simple_interest(call.args[1], call.args[2], call.args[3])
    IN  /\ ~IsErr(call.ret)
        /\ AtLeast(call.ret, s)
        /\ call.args[3] = One => call.ret = s

\* C9: calculate_bond_repayment returns a repayment > 0 for house_value > 0,
\* annual_rate > 0 and whole months >= 1: its denominator is > 0 there.
C9_BondRepaymentPositive ==
  (/\ pc = "returned"
   /\ call.fn = "calculate_bond_repayment"
   /\ \A i \in 1..3 : Positive(call.args[i])
   /\ FLe(One, call.args[3])) =>
    /\ call.ret.k # "ZeroDivisionError"
    /\ Positive(call.ret)

\* C10: for P > 0, R > 0 and Y >= 0, calculate_simple_interest(P, R, Y) is
\* P * (1 + R/100 * Y) as Python evaluates it; 1000 at 8 for 5 years is 1400,
\* 2 at 2 for 2 years is 2.08, 0.5 at 8 for 1.5 years is 0.56, and any
\* amount for 0 years is the amount.
C10_SimpleInterestFormula ==
  (/\ pc = "returned"
   /\ call.fn = "calculate_simple_interest"
   /\ Positive(call.args[1]) /\ Positive(call.args[2]) /\ FLe(Zero, call.args[3])) =>
    LET P == call.args[1]
        R == call.args[2]
        Y == call.args[3]
    IN  /\ call.ret = FMul(P, FAdd(One, FMul(FDiv(R, FromInt(100)), Y)))
        /\ <<P, R, Y>> = <<Dec(1000, 0), Dec(8, 0), Dec(5, 0)>> => call.ret = Dec(1400, 0)
        /\ <<P, R, Y>> = <<Dec(2, 0), Dec(2, 0), Dec(2, 0)>> => call.ret = Dec(208, -2)
        /\ <<P, R, Y>> = <<Dec(5, -1), Dec(8, 0), Dec(15, -1)>> => call.ret = Dec(56, -2)
        /\ Y = Zero => call.ret = P

\* C10 happens: calculate_simple_interest(1000, 8, 5) returned 1400.
C10_Witness ==
  /\ pc = "returned"
  /\ call.fn = "calculate_simple_interest"
  /\ call.args = <<Dec(1000, 0), Dec(8, 0), Dec(5, 0)>>
  /\ call.ret = Dec(1400, 0)

\* the lines of Lines that are "simple", and "compound", once trimmed and
\* lower-cased
SimpleLines ==
  { <<"s", "i", "m", "p", "l", "e">>, <<"S", "i", "m", "p", "l", "e", " ">> }

CompoundLines ==
  { <<"c", "o", "m", "p", "o", "u", "n", "d">>, <<"C", "O", "M", "P", "O", "U", "N", "D">> }

InterestCalculators == {"calculate_simple_interest", "calculate_compound_interest"}

\* what handle_investment displays for a total
InvestmentDisplay(y, total) ==
  <<[text |-> "After {years:.0f} years, your investment will be worth: {total:,.2f}",
     args |-> <<y, total>>]>>

\* C11: an invocation of handle_investment goes through CollectPrincipal,
\* CollectRate, CollectYears, CollectMode, Compute, Display in that order,
\* none skipped, none entered again once left: each prompt is followed by
\* itself or by the next one, the step that leaves CollectMode computes and
\* then displays and is back at the menu; a calculator is called in that step
\* and in no other, once, on the three accepted values, the simple one
\* exactly for the mode "simple", the compound one exactly for "compound".
C11_InvestmentStatesInOrder ==
  [][ /\ pc = "inv_principal" => pc' \in {"inv_principal", "inv_rate"}
      /\ pc = "inv_rate" => pc' \in {"inv_rate", "inv_years"}
      /\ pc = "inv_years" => pc' \in {"inv_years", "inv_type"}
      /\ pc = "inv_type" => pc' \in {"inv_type", "menu"}
      /\ pc' = "inv_principal" => pc \in {"menu", "inv_principal"}
      /\ pc' = "inv_rate" => pc \in {"inv_principal", "inv_rate"}
      /\ pc' = "inv_years" => pc \in {"inv_rate", "inv_years"}
      /\ pc' = "inv_type" => pc \in {"inv_years", "inv_type"}
      /\ (call'.fn \in InterestCalculators) = (pc = "inv_type" /\ pc' = "menu")
      /\ (pc = "inv_type" /\ pc' # "inv_type") =>
           /\ call'.args = <<principal, rate, years>>
           /\ (call'.fn = "calculate_simple_interest") = (line' \in SimpleLines)
           /\ (call'.fn = "calculate_compound_interest") = (line' \in CompoundLines)
           /\ ~IsErr(call'.ret)
           /\ out' = InvestmentDisplay(years, call'.ret) \o MenuText
    ]_vars


\* C12: the interest_type loop is left exactly on a line that is "simple" or
\* "compound" once trimmed and lower-cased; any other line prints the
\* invalid-choice message and prompts again in the same state, however often;
\* no calculator is called with a mode other than these two.
C12_ModeLoopLeftOnValidMode ==
  [][ pc = "inv_type" =>
        /\ (pc' # "inv_type") = (line' \in SimpleLines \cup CompoundLines)
        /\ line' \notin SimpleLines \cup CompoundLines =>
             /\ out' = <<Say("Invalid choice. Please enter 'simple' or 'compound'.")>>
             /\ call' = NoCall
             /\ UNCHANGED <<pc, exc, principal, rate, years, house_value>>
        /\ call'.fn # "none" =>
             /\ Lower(Strip(line')) \in {simple, compound}
             /\ (call'.fn = "calculate_simple_interest") = (Lower(Strip(line')) = simple)
             /\ (call'.fn = "calculate_compound_interest") = (Lower(Strip(line')) = compound)
    ]_vars

\* C12 happens: "abc" was typed at the interest_type prompt, the message was
\* printed and the prompt is waiting again.
C12_Witness ==
  /\ at = "inv_type"
  /\ line = <<"a", "b", "c">>
  /\ pc = "inv_type"
  /\ out = <<Say("Invalid choice. Please enter 'simple' or 'compound'.")>>


\* the prompts of get_positive_float
PositiveFloatPrompts == {"inv_principal", "inv_years", "bond_house_value", "bond_months"}

\* C13: get_positive_float returns on the first valid line: it returns
\* exactly on a line that parses as a number > 0, with that line's value, and
\* reads no further line; every line before it is rejected with one of the
\* two retry messages and a new prompt, so that without such a line the
\* reader never returns.
C13_ReaderReturnsOnFirstValidLine ==
  [][ (pc \in PositiveFloatPrompts) =>
        /\ (pc' # pc) = Positive(ParseFloat(line'))
        /\ pc' = pc =>
             /\ out' \in { <<Say("Please enter a greater number than zero.")>>,
                           <<Say("Invalid input. Please enter numeric value.")>> }
             /\ call' = NoCall
             /\ UNCHANGED <<exc, principal, rate, years, house_value>>
        /\ (pc = "inv_principal" /\ pc' = "inv_rate") => principal' = ParseFloat(line')
        /\ (pc = "inv_years" /\ pc' = "inv_type") => years' = ParseFloat(line')
        /\ (pc = "bond_house_value" /\ pc' = "bond_rate") => house_value' = ParseFloat(line')
    ]_vars

\* what handle_bond displays for a repayment
BondDisplay(repayment) ==
  <<[text |-> "Your monthly repayment will be: {repayment:,.2f}", args |-> <<repayment>>]>>

\* C14: in handle_bond the failure branch of the months/rate check is never
\* taken: once the three readers have returned, the invalid-input message is
\* not printed and the handler goes on to compute the repayment and to
\* display it.
C14_BondValidateNeverFails ==
  [][ (pc = "bond_months" /\ pc' # "bond_months") =>
        /\ \A i \in 1..Len(out') :
             out'[i] # Say("Invalid input: months and interest rate must be > 0.")
        /\ call'.fn = "calculate_bond_repayment"
        /\ ~IsErr(call'.ret)
        /\ pc' = "menu"
        /\ out' = BondDisplay(call'.ret) \o MenuText
    ]_vars

\* the prompts inside the handlers, by the reader that serves them
NumericPrompts == PositiveFloatPrompts

RatePrompts == {"inv_rate", "bond_rate"}

ModePrompts == {"inv_type"}

HandlerPrompts == NumericPrompts \cup RatePrompts \cup ModePrompts

CommandLines == InvestmentLines \cup BondLines \cup ExitLines

\* C15: a line read inside a handler is never taken as a menu command:
\* "exit", "bond" or "investment" (in any case, with any blanks around) at a
\* numeric, rate or mode prompt is rejected with that prompt's message and
\* the prompt is repeated, nothing else changes; the program ends normally
\* and a handler is started only by a step taken at the menu prompt.
C15_CommandsRejectedInsideHandlers ==
  [][ /\ (pc \in HandlerPrompts /\ line' \in CommandLines) =>
           /\ pc' = pc
           /\ pc \in NumericPrompts => out' = <<Say("Invalid input. Please enter numeric value.")>>
           /\ pc \in RatePrompts => out' = <<Say("Invalid input. Please enter a numeric value.")>>
           /\ pc \in ModePrompts => out' = <<Say("Invalid choice. Please enter 'simple' or 'compound'.")>>
           /\ call' = NoCall
           /\ UNCHANGED <<exc, principal, rate, years, house_value>>
      /\ pc' = "exited" => pc = "menu"
      /\ (pc' \in {"inv_principal", "bond_house_value"} /\ pc' # pc) => pc = "menu"
      /\ out' \in {<<Say("Investment Calculator:")>>, <<Say("Bond Repayment Calculator:")>>} =>
           pc = "menu"
    ]_vars

\* C15 happens: " Exit" was typed at the principal prompt of the investment
\* handler, which answered with its retry message and is prompting again.
C15_Witness ==
  /\ at = "inv_principal"
  /\ line = <<" ", "E", "x", "i", "t">>
  /\ pc = "inv_principal"
  /\ out = <<Say("Invalid input. Please enter numeric value.")>>

NoLocals == <<Unset, Unset, Unset, Unset>>

\* C16: no state is carried from one handler invocation to the next, and
\* the result displayed is a function of the values accepted in the
\* invocation: a handler starts and ends with none of its values set, a
\* rejected line changes none of them, an accepted line sets the one value
\* it was read for to the number it parses to, and the result displayed is
\* the calculator's value on the values so accepted, whatever was typed
\* before.
C16_ResultDependsOnAcceptedValues ==
  [][ /\ (pc = "menu" \/ pc' = "menu") => <<principal', rate', years', house_value'>> = NoLocals
      /\ (pc \in HandlerPrompts /\ pc' = pc) => UNCHANGED <<principal, rate, years, house_value>>
      /\ (pc = "inv_principal" /\ pc' = "inv_rate") =>
           principal' = ParseFloat(line') /\ UNCHANGED <<rate, years, house_value>>
      /\ (pc = "inv_rate" /\ pc' = "inv_years") =>
           rate' = ParseFloat(line') /\ UNCHANGED <<principal, years, house_value>>
      /\ (pc = "inv_years" /\ pc' = "inv_type") =>
           years' = ParseFloat(line') /\ UNCHANGED <<principal, rate, house_value>>
      /\ (pc = "bond_house_value" /\ pc' = "bond_rate") =>
           house_value' = ParseFloat(line') /\ UNCHANGED <<principal, rate, years>>
      /\ (pc = "bond_rate" /\ pc' = "bond_months") =>
           rate' = ParseFloat(line') /\ UNCHANGED <<principal, years, house_value>>
      /\ (pc = "inv_type" /\ pc' = "menu") =>
           out' = InvestmentDisplay(years,
                    IF line' \in SimpleLines
                      THEN calculate_simple_interest(principal, rate, years)
                      ELSE calculate_compound_interest(principal, rate, years)) \o MenuText
      /\ (pc = "bond_months" /\ pc' = "menu") =>
           out' = BondDisplay(calculate_bond_repayment(house_value, rate,
                                                       ToInt(ParseFloat(line')))) \o MenuText
    ]_vars

\* C16 happens: an investment of 2 at 2 for 2 years was read and 2.0808 is
\* displayed for the compound mode, with no value left set.
C16_Witness ==
  /\ at = "inv_type"
  /\ pc = "menu"
  /\ line \in CompoundLines
  /\ call.args = <<Dec(2, 0), Dec(2, 0), Dec(2, 0)>>
  /\ out = InvestmentDisplay(Dec(2, 0), Dec(20808, -4)) \o MenuText
  /\ <<principal, rate, years, house_value>> = NoLocals

====
